---- MODULE Spec2Model ----
(***************************************************************************)
(* Grumble sync service: the /sync handler (deploy/sync-service/main.py)   *)
(* with its Firestore lock record, feedback and group collections and the  *)
(* sync-state watermark.  Every request is a run; a run's position in      *)
(* sync_all is pc[r].  Requests may be served by different service         *)
(* instances, so the store operations of different runs interleave.        *)
(***************************************************************************)
EXTENDS Integers, Sequences, FiniteSets, TLC

(* ------------------------------ bounds -------------------------------- *)
\* last instant of the modelled clock
MaxTime == 2
\* longest list the fetchers return in one run
MaxFetch == 1
\* longest list of groups the grouping model proposes in one run
MaxGroups == 1

(* ------------------------- program constants -------------------------- *)
\* timedelta(minutes=30), in clock units of 15 minutes
LockTTL == 2
\* the requests
Runs == {"r1", "r2"}
\* ids the fetchers build for upstream objects
ItemIds == {"a"}
\* themes the grouping model may propose
Themes == {"Bug", "bug"}
\* the three configurable sources
Sources == {"twitter", "github", "discourse"}

NoTime == -1
NoLock == [exists |-> FALSE]
NoResponse == [pending |-> TRUE]

VARIABLES
    now,          \* datetime.now()
    lock,         \* grumble-config/sync-lock
    feedback,     \* ids of the documents of grumble-feedback
    groupDocs,    \* documents of grumble-groups
    lastSyncAt,   \* grumble-config/sync-state.lastSyncAt (NoTime: absent)
    pc,           \* position of each run in sync_all
    header,       \* Authorization header of each request
    snap,         \* acquire_lock: lock = lock_ref.get()
    stamp,        \* acquire_lock: value of "acquired_at" once evaluated
    cfg,          \* sync_all: sources that are enabled and have a credential
    last_sync,    \* sync_all: last_sync
    all_items,    \* sync_all: all_items
    new_items,    \* sync_all: new_items
    analyzed_items, \* sync_all: analyzed_items (translate_batch returns the same list)
    groups,       \* sync_all: groups
    unique_groups, \* sync_all: unique_groups
    response,     \* what the handler returns or raises
    hist,         \* per run, what it has done so far (history, not program state)
    mergeCall,    \* one call sequence merge_items, save_items, merge_items
    groupCall,    \* one call sequence _group_items, deduplicate_groups
    analyzeCall,  \* one call of analyze_batch on one batch
    retryCall,    \* one run of a retry loop of a fetcher or model client
    serial        \* runs of sync_all one after the other, never overlapping

syncVars == <<now, lock, feedback, groupDocs, lastSyncAt, pc, header, snap, stamp,
              cfg, last_sync, all_items, new_items, analyzed_items, groups,
              unique_groups, response, hist>>

calls == <<mergeCall, groupCall, analyzeCall, retryCall, serial>>

vars == <<syncVars, calls>>

store == <<lock, feedback, groupDocs, lastSyncAt>>
locals == <<snap, stamp, cfg, last_sync, all_items, new_items, analyzed_items,
            groups, unique_groups>>
data == <<cfg, last_sync, all_items, new_items, analyzed_items, groups, unique_groups>>

(* ------------------------------ helpers ------------------------------- *)
Min(a, b) == IF a <= b THEN a ELSE b

SeqsUpTo(S, n) == UNION {[1..k -> S] : k \in 0..n}

\* str.startswith
StartsWith(s, p) == Len(s) >= Len(p) /\ SubSeq(s, 1, Len(p)) = p

Bearer == <<"B", "e", "a", "r", "e", "r", " ">>

\* request.headers.get("Authorization"): None or a string
Headers ==
    { [present |-> FALSE, value |-> <<>>],
      [present |-> TRUE, value |-> <<>>],
      [present |-> TRUE, value |-> Bearer \o <<"t">>],
      [present |-> TRUE, value |-> <<"B", "e", "a", "r", "e", "r">>],
      [present |-> TRUE, value |-> <<"b", "e", "a", "r", "e", "r", " ", "t">>],
      [present |-> TRUE, value |-> <<"B", "a", "s", "i", "c", " ", "t">>] }

\* a check that only tests the header for presence
AuthOkPresenceOnly(h) == h.present /\ Len(h.value) > 0

\* not (not auth_header or not auth_header.startswith("Bearer "))
AuthOk(h) == ~(~(h.present /\ Len(h.value) > 0) \/ ~StartsWith(h.value, Bearer))

InitHist ==
    [ lockCalls |-> 0,        \* calls of acquire_lock
      acquired |-> FALSE,     \* acquire_lock returned True
      overrode |-> FALSE,     \* ... over an unexpired record of another run
      sawActive |-> FALSE,    \* acquire_lock found an unexpired record
      releases |-> 0,         \* calls of release_lock
      writes |-> {},          \* store documents / collections written
      fetched |-> FALSE,      \* phase 1 was entered
      raised |-> FALSE,       \* a statement of the try block raised
      wmAtAcquire |-> NoTime  \* lastSyncAt when acquire_lock returned True
    ]

\* the state of the service and its store before the first request
SyncInit ==
    /\ now = 0
    /\ lock = NoLock
    /\ feedback = {}
    /\ groupDocs = {}
    /\ lastSyncAt = NoTime
    /\ pc = [r \in Runs |-> "start"]
    /\ header = [r \in Runs |-> [present |-> FALSE, value |-> <<>>]]
    /\ snap = [r \in Runs |-> NoLock]
    /\ stamp = [r \in Runs |-> NoTime]
    /\ cfg = [r \in Runs |-> {}]
    /\ last_sync = [r \in Runs |-> NoTime]
    /\ all_items = [r \in Runs |-> <<>>]
    /\ new_items = [r \in Runs |-> <<>>]
    /\ analyzed_items = [r \in Runs |-> <<>>]
    /\ groups = [r \in Runs |-> <<>>]
    /\ unique_groups = [r \in Runs |-> <<>>]
    /\ response = [r \in Runs |-> NoResponse]
    /\ hist = [r \in Runs |-> InitHist]

\* no function is being called on its own
NoCall == [step |-> "idle"]

Init ==
    /\ SyncInit
    /\ mergeCall = NoCall
    /\ groupCall = NoCall
    /\ analyzeCall = NoCall
    /\ retryCall = NoCall
    /\ serial = NoCall

\* the clock advances
Tick ==
    /\ now < MaxTime
    /\ now' = now + 1
    /\ UNCHANGED <<calls, store, pc, header, locals, response, hist>>

(* --------------------------- the /sync handler ------------------------ *)
\* main.py 58-64: the Authorization check
Auth(r) ==
    /\ pc[r] = "start"
    /\ \E h \in Headers :
        /\ header' = [header EXCEPT ![r] = h]
        /\ IF AuthOk(h)
              THEN /\ pc' = [pc EXCEPT ![r] = "lock_get"]
                   /\ UNCHANGED response
              ELSE /\ pc' = [pc EXCEPT ![r] = "done"]
                   /\ response' = [response EXCEPT ![r] =
                                     [status_code |-> 401, detail |-> "Unauthorized"]]
    /\ UNCHANGED <<calls, now, store, locals, hist>>

\* acquire_lock, main.py 22-23: lock = lock_ref.get()
LockGet(r) ==
    /\ pc[r] = "lock_get"
    /\ snap' = [snap EXCEPT ![r] = lock]
    /\ hist' = [hist EXCEPT ![r].lockCalls = @ + 1]
    /\ pc' = [pc EXCEPT ![r] = "lock_check"]
    /\ UNCHANGED <<calls, now, store, header, stamp, data, response>>

\* lock.exists and expires_at and expires_at > datetime.now()
LockActive(l, t) == l.exists /\ l.expires_at # NoTime /\ l.expires_at > t

\* an acquire_lock call placed inside the try block
SkipThroughFinally == "finally"

\* where sync_all goes when acquire_lock returns False (the return of line 69)
SkipPc == "done"

\* acquire_lock, main.py 25-29, and sync_all 67-69
LockCheck(r) ==
    /\ pc[r] = "lock_check"
    /\ IF LockActive(snap[r], now)
          THEN /\ pc' = [pc EXCEPT ![r] = SkipPc]
               /\ response' = [response EXCEPT ![r] =
                     [status |-> "skipped", reason |-> "Another sync in progress"]]
               /\ hist' = [hist EXCEPT ![r].sawActive = TRUE]
          ELSE /\ pc' = [pc EXCEPT ![r] = "lock_stamp"]
               /\ UNCHANGED <<response, hist>>
    /\ snap' = [snap EXCEPT ![r] = NoLock]
    /\ UNCHANGED <<calls, now, store, header, stamp, data>>

\* acquire_lock, main.py 32: "acquired_at": datetime.now()
LockStamp(r) ==
    /\ pc[r] = "lock_stamp"
    /\ stamp' = [stamp EXCEPT ![r] = now]
    /\ pc' = [pc EXCEPT ![r] = "lock_set"]
    /\ UNCHANGED <<calls, now, store, header, snap, data, response, hist>>

\* the record of main.py 31-34; owner is not a field of the document, it
\* names the run that wrote it
LockRecord(r, acquired_at, t) ==
    [exists |-> TRUE, acquired_at |-> acquired_at, expires_at |-> t + LockTTL,
     owner |-> r]

\* acquire_lock, main.py 31-35: lock_ref.set({...}); return True
LockSet(r) ==
    /\ pc[r] = "lock_set"
    /\ lock' = LockRecord(r, stamp[r], now)
    /\ hist' = [hist EXCEPT ![r].acquired = TRUE,
                            ![r].overrode = LockActive(lock, now),
                            ![r].writes = @ \cup {"lock"},
                            ![r].wmAtAcquire = lastSyncAt]
    /\ pc' = [pc EXCEPT ![r] = "get_config"]
    /\ stamp' = [stamp EXCEPT ![r] = NoTime]
    /\ UNCHANGED <<calls, now, feedback, groupDocs, lastSyncAt, header, snap, data, response>>

(* ------------------------- pure parts of the pipeline ----------------- *)
\* merge_items without the membership test
MergeItemsNoFilter(existing, items) ==
    SelectSeq(items, LAMBDA it : it # "")

\* FirestoreService.merge_items: the candidates whose id is set and not stored
MergeItems(existing, items) ==
    SelectSeq(items, LAMBDA it : it # "" /\ it \notin existing)

\* what json.loads may give _analyze_items for a batch: an array of objects
\* ("obj") and of other values ("bad"), of any length up to one more than the batch
AnalysisArrays(batch) == SeqsUpTo({"obj", "bad"}, Len(batch) + 1)

\* what _analyze_items does for a batch: raise after its retries, or return
\* the parsed array
AnalysisOutcomes(batch) ==
    {[raised |-> TRUE, array |-> <<>>]}
        \cup {[raised |-> FALSE, array |-> a] : a \in AnalysisArrays(batch)}

FirstBad(res, k) ==
    IF \E j \in 1..k : res[j] = "bad"
       THEN CHOOSE j \in 1..k : res[j] = "bad" /\ \A i \in 1..(j - 1) : res[i] # "bad"
       ELSE 0

\* SentimentService.analyze_batch on one batch (at most batch_size = 10 items): the
\* ids appended to `analyzed`.  When _analyze_items raised, the except branch
\* appends the batch.  Otherwise zip(batch, results) stops at the shorter
\* list, and a result without .get raises inside the loop, after which the
\* except branch appends every item of the batch again.
AnalyzeBatch(batch, out) ==
    IF out.raised
       THEN batch
       ELSE LET res == out.array
                k == Min(Len(batch), Len(res))
                j == FirstBad(res, k)
            IN  IF j = 0 THEN SubSeq(batch, 1, k)
                         ELSE SubSeq(batch, 1, j - 1) \o batch

\* the fields analyze_batch leaves on the entries of `analyzed`, for the same
\* batch and outcome.  The except branch (lines 40-44) sets sentiment and
\* category on every item of the batch, also on the items the loop had
\* already handled (the list holds the same dicts twice), and sets no summary.
AnalyzedFields(batch, out) ==
    LET fallback(i) == [id |-> batch[i], sentiment |-> "neutral", summary |-> "unset"]
        applied(i) == [id |-> batch[i], sentiment |-> "result", summary |-> "result"]
        overwritten(i) == [id |-> batch[i], sentiment |-> "neutral", summary |-> "result"]
    IN  IF out.raised
           THEN [i \in 1..Len(batch) |-> fallback(i)]
           ELSE LET res == out.array
                    k == Min(Len(batch), Len(res))
                    j == FirstBad(res, k)
                    again == [i \in 1..Len(batch) |->
                                 IF i < j THEN overwritten(i) ELSE fallback(i)]
                IN  IF j = 0 THEN [i \in 1..k |-> applied(i)]
                             ELSE [i \in 1..(j - 1) |-> overwritten(i)] \o again

\* GroupingService._generate_group_id: md5 of the theme as given
GroupId(theme) == <<"group-", theme>>

\* what _group_items does: raise after its retries, or return one group per
\* theme of the parsed array
GroupingOutcomes ==
    {[raised |-> TRUE, themes |-> <<>>]}
        \cup {[raised |-> FALSE, themes |-> t] : t \in SeqsUpTo(Themes, MaxGroups)}

\* a create_groups that answers a failure with a catch-all group
CreateGroupsFallbackGroup(items, out) ==
    IF items = <<>> THEN <<>>
    ELSE IF out.raised THEN <<[id |-> GroupId("Bug"), theme |-> "Bug"]>>
    ELSE [i \in 1..Len(out.themes) |->
             [id |-> GroupId(out.themes[i]), theme |-> out.themes[i]]]

\* GroupingService.create_groups and the loop of _group_items (grouping.py 74-85)
CreateGroups(items, out) ==
    IF items = <<>> \/ out.raised
       THEN <<>>
       ELSE [i \in 1..Len(out.themes) |->
                [id |-> GroupId(out.themes[i]), theme |-> out.themes[i]]]

\* str.lower on the themes of the model
Lower(theme) == IF theme = "Bug" THEN "bug" ELSE theme

RECURSIVE DedupFrom(_, _, _)
DedupFrom(new_groups, i, existing_themes) ==
    IF i > Len(new_groups)
       THEN <<>>
       ELSE LET theme_lower == Lower(new_groups[i].theme)
            IN  IF theme_lower \notin existing_themes
                   THEN <<new_groups[i]>> \o
                        DedupFrom(new_groups, i + 1, existing_themes \cup {theme_lower})
                   ELSE DedupFrom(new_groups, i + 1, existing_themes)

\* GroupingService.deduplicate_groups
DeduplicateGroups(new_groups, existing_groups) ==
    IF new_groups = <<>> THEN <<>>
    ELSE IF existing_groups = {} THEN new_groups
    ELSE DedupFrom(new_groups, 1, {Lower(g.theme) : g \in existing_groups})

SeqRange(s) == {s[i] : i \in 1..Len(s)}

\* FirestoreService.save_groups: the documents of grumble-groups after the call
SaveGroupsDocs(docs, new_groups) == docs \cup SeqRange(new_groups)

\* save_items without its last commit: fewer than 450 items are never written
SaveItemsNoFinalCommit(docs, items) == docs

\* FirestoreService.save_items: the ids of grumble-feedback after the call
SaveItemsDocs(docs, items) == docs \cup (SeqRange(items) \ {""})

(* ------------------------- the pipeline of sync_all ------------------- *)
\* A local of sync_all keeps its value in the model for as long as the
\* handler still reads it; afterwards it is back at its initial value.

\* a handler whose except clause is not followed by a finally clause
RaiseSkipsFinally == "done"

\* where control goes when a statement of the try block raises: the except
\* clause re-raises as HTTPException(500) and the finally clause follows
RaisePc == "finally"

\* an early return placed outside the try/finally
EarlyReturnSkipsFinally == "done"

\* where the return of line 127 goes: the finally clause
EarlyReturnPc == "finally"

Goto(r, where) == pc' = [pc EXCEPT ![r] = where]

\* main.py 168-170: a statement of the try block raises (a store or provider
\* failure, or any unexpected fault); except Exception turns it into
\* HTTPException(status_code=500)
Raise(r) ==
    /\ Goto(r, RaisePc)
    /\ response' = [response EXCEPT ![r] = [status_code |-> 500]]
    /\ hist' = [hist EXCEPT ![r].raised = TRUE,
                            ![r].fetched = @ \/ pc[r] = "fetch"]
    /\ cfg' = [cfg EXCEPT ![r] = {}]
    /\ last_sync' = [last_sync EXCEPT ![r] = NoTime]
    /\ all_items' = [all_items EXCEPT ![r] = <<>>]
    /\ new_items' = [new_items EXCEPT ![r] = <<>>]
    /\ analyzed_items' = [analyzed_items EXCEPT ![r] = <<>>]
    /\ groups' = [groups EXCEPT ![r] = <<>>]
    /\ unique_groups' = [unique_groups EXCEPT ![r] = <<>>]
    /\ UNCHANGED <<calls, now, store, header, snap, stamp>>

\* main.py 72: config = firestore.get_config()
GetConfig(r) ==
    /\ pc[r] = "get_config"
    /\ \/ /\ \E c \in SUBSET Sources : cfg' = [cfg EXCEPT ![r] = c]
          /\ Goto(r, "get_last_sync")
          /\ UNCHANGED <<calls, now, store, header, snap, stamp, last_sync, all_items,
                         new_items, analyzed_items, groups, unique_groups,
                         response, hist>>
       \/ Raise(r)

\* main.py 75: last_sync = firestore.get_last_sync_time()
GetLastSync(r) ==
    /\ pc[r] = "get_last_sync"
    /\ \/ /\ last_sync' = [last_sync EXCEPT ![r] = lastSyncAt]
          /\ Goto(r, "fetch")
          /\ UNCHANGED <<calls, now, store, header, snap, stamp, cfg, all_items,
                         new_items, analyzed_items, groups, unique_groups,
                         response, hist>>
       \/ Raise(r)

\* main.py 83-120, phase 1.  TwitterService.search (twitter.py 18) takes no
\* `since`, so the call of line 92 raises TypeError whenever twitter is
\* enabled with a token; the other two fetchers swallow their failures and
\* return what they collected (a source that fails contributes nothing), and
\* phase 1 does not touch the store.
Fetch(r) ==
    /\ pc[r] = "fetch"
    /\ \/ /\ "twitter" \notin cfg[r]
          /\ \E its \in SeqsUpTo(ItemIds, MaxFetch) :
                /\ (cfg[r] \cap {"github", "discourse"} = {}) => its = <<>>
                /\ all_items' = [all_items EXCEPT ![r] = its]
          /\ Goto(r, "merge")
          /\ hist' = [hist EXCEPT ![r].fetched = TRUE]
          /\ cfg' = [cfg EXCEPT ![r] = {}]
          /\ last_sync' = [last_sync EXCEPT ![r] = NoTime]
          /\ UNCHANGED <<calls, now, store, header, snap, stamp, new_items,
                         analyzed_items, groups, unique_groups, response>>
       \/ /\ "twitter" \in cfg[r]
          /\ Raise(r)

\* main.py 122-127: merge_items and the early return
Merge(r) ==
    /\ pc[r] = "merge"
    /\ \/ LET merged == MergeItems(feedback, all_items[r])
          IN  /\ IF merged = <<>>
                    THEN /\ Goto(r, EarlyReturnPc)
                         /\ response' = [response EXCEPT ![r] =
                               [synced |-> 0, groups |-> 0, message |-> "No new items"]]
                         /\ UNCHANGED new_items
                    ELSE /\ Goto(r, "analyze")
                         /\ new_items' = [new_items EXCEPT ![r] = merged]
                         /\ UNCHANGED response
              /\ UNCHANGED <<calls, now, store, header, snap, stamp, cfg, last_sync,
                             all_items, analyzed_items, groups, unique_groups, hist>>
       \/ Raise(r)

\* main.py 129-134, phase 2
Analyze(r) ==
    /\ pc[r] = "analyze"
    /\ \/ /\ \E res \in AnalysisOutcomes(new_items[r]) :
                analyzed_items' = [analyzed_items EXCEPT ![r] =
                                      AnalyzeBatch(new_items[r], res)]
          /\ new_items' = [new_items EXCEPT ![r] = <<>>]
          /\ Goto(r, "group")
          /\ UNCHANGED <<calls, now, store, header, snap, stamp, cfg, last_sync, all_items,
                         groups, unique_groups, response, hist>>
       \/ Raise(r)

\* main.py 136-140, phase 3
Group(r) ==
    /\ pc[r] = "group"
    /\ \/ /\ \E out \in GroupingOutcomes :
                groups' = [groups EXCEPT ![r] = CreateGroups(analyzed_items[r], out)]
          /\ Goto(r, "dedup")
          /\ UNCHANGED <<calls, now, store, header, snap, stamp, cfg, last_sync, all_items,
                         new_items, analyzed_items, unique_groups, response, hist>>
       \/ Raise(r)

\* main.py 142-146, phase 4: get_existing_groups and deduplicate_groups
Dedup(r) ==
    /\ pc[r] = "dedup"
    /\ \/ /\ unique_groups' = [unique_groups EXCEPT ![r] =
                                 DeduplicateGroups(groups[r], groupDocs)]
          /\ groups' = [groups EXCEPT ![r] = <<>>]
          /\ Goto(r, "translate")
          /\ UNCHANGED <<calls, now, store, header, snap, stamp, cfg, last_sync, all_items,
                         new_items, analyzed_items, response, hist>>
       \/ Raise(r)

\* a handler that saves the items before it translates them
TranslateSavingFirst(r) ==
    /\ pc[r] = "translate"
    /\ feedback' = SaveItemsDocs(feedback, analyzed_items[r])
    /\ hist' = [hist EXCEPT ![r].writes = @ \cup {"items"}]
    /\ Goto(r, "save_items")
    /\ UNCHANGED <<calls, now, lock, groupDocs, lastSyncAt, header, locals, response>>

\* main.py 148-152, phase 5: translate_batch returns the list it was given
Translate(r) ==
    /\ pc[r] = "translate"
    /\ \/ /\ Goto(r, "save_items")
          /\ UNCHANGED <<calls, now, store, header, locals, response, hist>>
       \/ Raise(r)

\* FirestoreService.save_items: one batch.set(..., merge=True) per item with
\* an id, committed when there is one
SaveItems(r) ==
    /\ pc[r] = "save_items"
    /\ \/ LET ids == SeqRange(analyzed_items[r]) \ {""}
          IN  /\ feedback' = feedback \cup ids
              /\ hist' = [hist EXCEPT ![r].writes =
                            IF ids = {} THEN @ ELSE @ \cup {"items"}]
              /\ Goto(r, "save_groups")
              /\ UNCHANGED <<calls, now, lock, groupDocs, lastSyncAt, header, locals,
                             response>>
       \/ Raise(r)

\* FirestoreService.save_groups
SaveGroups(r) ==
    /\ pc[r] = "save_groups"
    /\ \/ LET docs == SeqRange(unique_groups[r])
          IN  /\ groupDocs' = SaveGroupsDocs(groupDocs, unique_groups[r])
              /\ hist' = [hist EXCEPT ![r].writes =
                            IF docs = {} THEN @ ELSE @ \cup {"groups"}]
              /\ Goto(r, "update_ts")
              /\ UNCHANGED <<calls, now, lock, feedback, lastSyncAt, header, locals,
                             response>>
       \/ Raise(r)

\* FirestoreService.update_sync_timestamp, then the return of main.py 162-166
UpdateTs(r) ==
    /\ pc[r] = "update_ts"
    /\ \/ /\ lastSyncAt' = now
          /\ hist' = [hist EXCEPT ![r].writes = @ \cup {"sync-state"}]
          /\ response' = [response EXCEPT ![r] =
                [synced |-> Len(analyzed_items[r]),
                 groups |-> Len(unique_groups[r]),
                 total_fetched |-> Len(all_items[r])]]
          /\ Goto(r, "finally")
          /\ UNCHANGED <<calls, now, lock, feedback, groupDocs, header, locals>>
       \/ Raise(r)

\* a release_lock that leaves the document in place
LockKept(l) == l

\* release_lock, main.py 38-41: lock_ref.delete()
LockAfterRelease(l) == NoLock

\* main.py 172-173: the finally clause, after which the handler has returned
Release(r) ==
    /\ pc[r] = "finally"
    /\ lock' = LockAfterRelease(lock)
    /\ hist' = [hist EXCEPT ![r].releases = @ + 1,
                            ![r].writes = @ \cup {"lock"}]
    /\ Goto(r, "done")
    /\ all_items' = [all_items EXCEPT ![r] = <<>>]
    /\ analyzed_items' = [analyzed_items EXCEPT ![r] = <<>>]
    /\ unique_groups' = [unique_groups EXCEPT ![r] = <<>>]
    /\ UNCHANGED <<calls, now, feedback, groupDocs, lastSyncAt, header, snap, stamp, cfg,
                   last_sync, new_items, groups, response>>

Next ==
    \/ Tick
    \/ \E r \in Runs :
        \/ Auth(r)
        \/ LockGet(r)
        \/ LockCheck(r)
        \/ LockStamp(r)
        \/ LockSet(r)
        \/ GetConfig(r)
        \/ GetLastSync(r)
        \/ Fetch(r)
        \/ Merge(r)
        \/ Analyze(r)
        \/ Group(r)
        \/ Dedup(r)
        \/ Translate(r)
        \/ SaveItems(r)
        \/ SaveGroups(r)
        \/ UpdateTs(r)
        \/ Release(r)

Spec == Init /\ [][Next]_vars


(* ------------------- the functions called on their own ---------------- *)
\* The specification Calls applies single functions of the services to
\* inputs drawn from bounded sets, with the service itself at rest.

\* longest candidate list handed to merge_items
MaxCandidates == 2

\* upstream objects the fetchers may meet.  Tweet ids, issue ids and
\* discussion node ids are unique over the whole provider; a topic id is
\* unique within one forum only.
Upstream ==
    { [sourceType |-> "twitter-search", place |-> "api.twitter.com", native |-> 1],
      [sourceType |-> "github-issue", place |-> "o/a", native |-> 1],
      [sourceType |-> "github-issue", place |-> "o/b", native |-> 2],
      [sourceType |-> "github-discussion", place |-> "o/a", native |-> 1],
      [sourceType |-> "discourse", place |-> "https://f1", native |-> 1],
      [sourceType |-> "discourse", place |-> "https://f1", native |-> 2],
      [sourceType |-> "discourse", place |-> "https://f2", native |-> 1] }

\* the "id" the fetchers give an item: f"twitter-{tweet['id']}",
\* f"github-issue-{issue['id']}", f"github-discussion-{disc['id']}",
\* f"discourse-{topic['id']}"
ItemId(o) ==
    CASE o.sourceType = "twitter-search" -> "twitter-1"
      [] o.sourceType = "github-issue" ->
            (IF o.native = 1 THEN "github-issue-1" ELSE "github-issue-2")
      [] o.sourceType = "github-discussion" -> "github-discussion-1"
      [] o.sourceType = "discourse" ->
            (IF o.native = 1 THEN "discourse-1" ELSE "discourse-2")

\* the ids of a list of fetched objects
IdsOf(objs) == [i \in 1..Len(objs) |-> ItemId(objs[i])]

MergeCallInit ==
    \E before \in SUBSET {ItemId(o) : o \in Upstream} :
        \E cands \in SeqsUpTo(Upstream, MaxCandidates) :
            mergeCall = [step |-> "drawn", before |-> before, docs |-> before,
                         candidates |-> cands, merged |-> <<>>, again |-> <<>>]

\* merged = firestore.merge_items(candidates)
MergeCallMerge ==
    /\ mergeCall.step = "drawn"
    /\ mergeCall' = [mergeCall EXCEPT
            !.step = "merged",
            !.merged = MergeItems(mergeCall.docs, IdsOf(mergeCall.candidates))]
    /\ UNCHANGED <<syncVars, serial, groupCall, analyzeCall, retryCall>>

\* firestore.save_items(merged)
MergeCallSave ==
    /\ mergeCall.step = "merged"
    /\ mergeCall' = [mergeCall EXCEPT
            !.step = "saved",
            !.docs = SaveItemsDocs(mergeCall.docs, mergeCall.merged)]
    /\ UNCHANGED <<syncVars, serial, groupCall, analyzeCall, retryCall>>

\* firestore.merge_items(candidates) once more
MergeCallAgain ==
    /\ mergeCall.step = "saved"
    /\ mergeCall' = [mergeCall EXCEPT
            !.step = "remerged",
            !.again = MergeItems(mergeCall.docs, IdsOf(mergeCall.candidates))]
    /\ UNCHANGED <<syncVars, serial, groupCall, analyzeCall, retryCall>>

\* longest array of groups the model proposes to _group_items
MaxProposed == 2

\* themes the model may propose or the store may hold
ThemePool == {"Bug", "bug", "ui"}

GroupCallInit ==
    \E raw \in SeqsUpTo(ThemePool, MaxProposed) :
        \E stored \in SUBSET {[id |-> GroupId(t), theme |-> t] : t \in ThemePool} :
            groupCall = [step |-> "drawn", raw |-> raw, existing |-> stored,
                         new_groups |-> <<>>, unique |-> <<>>]

\* groups = await grouping.create_groups(items), for a list of one item and
\* a model call that succeeds
GroupCallCreate ==
    /\ groupCall.step = "drawn"
    /\ groupCall' = [groupCall EXCEPT
            !.step = "created",
            !.new_groups = CreateGroups(<<"a">>, [raised |-> FALSE,
                                                  themes |-> groupCall.raw])]
    /\ UNCHANGED <<syncVars, serial, mergeCall, analyzeCall, retryCall>>

\* unique_groups = await grouping.deduplicate_groups(groups, existing_groups)
GroupCallDedup ==
    /\ groupCall.step = "created"
    /\ groupCall' = [groupCall EXCEPT
            !.step = "deduped",
            !.unique = DeduplicateGroups(groupCall.new_groups, groupCall.existing)]
    /\ UNCHANGED <<syncVars, serial, mergeCall, analyzeCall, retryCall>>

\* longest batch handed to analyze_batch
MaxBatch == 2

\* ids of the items of a batch
BatchIds == {"a", "b"}

AnalyzeCallInit ==
    \E batch \in SeqsUpTo(BatchIds, MaxBatch) \ {<<>>} :
        \E out \in AnalysisOutcomes(batch) :
            analyzeCall = [step |-> "drawn", batch |-> batch, outcome |-> out,
                           analyzed |-> <<>>, fields |-> <<>>]

\* analyzed_items = await sentiment.analyze_batch(new_items), one batch
AnalyzeCallRun ==
    /\ analyzeCall.step = "drawn"
    /\ analyzeCall' = [analyzeCall EXCEPT
            !.step = "returned",
            !.analyzed = AnalyzeBatch(analyzeCall.batch, analyzeCall.outcome),
            !.fields = AnalyzedFields(analyzeCall.batch, analyzeCall.outcome)]
    /\ UNCHANGED <<syncVars, serial, mergeCall, groupCall, retryCall>>

\* self.max_retries of every service
MaxRetries == 3

\* what one attempt of a call meets: a 2xx answer that parses, a 429, a
\* 500/502/503/504, another 4xx, or an exception that is no HTTPStatusError
\* (transport error, timeout, unparsable body)
Outcomes == {"ok", "429", "5xx", "4xx", "transport"}

\* a backoff that does not grow
BackoffFixed(attempt) == 1

\* wait_time = 2 ** attempt
Backoff(attempt) == 2 ^ attempt

Sleep(attempt) == [sleep |-> <<Backoff(attempt)>>, exit |-> "next"]
Exit(how) == [sleep |-> <<>>, exit |-> how]

\* the branch `if attempt < self.max_retries - 1: sleep ... else: <last>`
SleepUnlessLast(attempt, last) ==
    IF attempt < MaxRetries - 1 THEN Sleep(attempt) ELSE Exit(last)

\* TwitterService._search_term, twitter.py 54-85, one pass of the loop
TwitterSearchTerm(attempt, o) ==
    CASE o = "ok" -> Exit("return")
      [] o = "429" -> Sleep(attempt)
      [] o = "5xx" -> Sleep(attempt)
      [] o = "4xx" -> Exit("raise")
      [] o = "transport" -> SleepUnlessLast(attempt, "raise")

\* GitHubService._fetch_issues, github.py 70-97
GithubFetchIssues(attempt, o) ==
    CASE o = "ok" -> Exit("return")
      [] o = "429" -> Sleep(attempt)
      [] o = "5xx" -> Sleep(attempt)
      [] o = "4xx" -> Exit("raise")
      [] o = "transport" -> SleepUnlessLast(attempt, "raise")

\* GitHubService._fetch_discussions, github.py 125-147: raise_for_status
\* raises on every 4xx and 5xx, and except Exception handles them all
GithubFetchDiscussions(attempt, o) ==
    IF o = "ok" THEN Exit("return") ELSE SleepUnlessLast(attempt, "empty")

\* DiscourseService._fetch_latest_topics, discourse.py 43-62
DiscourseLatestTopics(attempt, o) ==
    CASE o = "ok" -> Exit("return")
      [] o = "429" -> Sleep(attempt)
      [] OTHER -> SleepUnlessLast(attempt, "raise")

\* DiscourseService._fetch_topic_posts, discourse.py 68-87
DiscourseTopicPosts(attempt, o) ==
    CASE o = "ok" -> Exit("return")
      [] o = "429" -> Sleep(attempt)
      [] OTHER -> SleepUnlessLast(attempt, "empty")

\* SentimentService._analyze_items, sentiment.py 52-74: every failure of the
\* model call or of json.loads is an exception
AnalyzeItems(attempt, o) ==
    IF o = "ok" THEN Exit("return") ELSE SleepUnlessLast(attempt, "raise")

\* SentimentService._translate_items, sentiment.py 133-155: no else branch
TranslateItems(attempt, o) ==
    IF o = "ok" THEN Exit("return") ELSE SleepUnlessLast(attempt, "next")

\* GroupingService._group_items, grouping.py 58-94
GroupItems(attempt, o) ==
    IF o = "ok" THEN Exit("return") ELSE SleepUnlessLast(attempt, "raise")

FetcherLoops == {"twitter._search_term", "github._fetch_issues",
                 "github._fetch_discussions", "discourse._fetch_latest_topics",
                 "discourse._fetch_topic_posts"}

ClientLoops == {"sentiment._analyze_items", "sentiment._translate_items",
                "grouping._group_items"}

Pass(loop, attempt, o) ==
    CASE loop = "twitter._search_term" -> TwitterSearchTerm(attempt, o)
      [] loop = "github._fetch_issues" -> GithubFetchIssues(attempt, o)
      [] loop = "github._fetch_discussions" -> GithubFetchDiscussions(attempt, o)
      [] loop = "discourse._fetch_latest_topics" -> DiscourseLatestTopics(attempt, o)
      [] loop = "discourse._fetch_topic_posts" -> DiscourseTopicPosts(attempt, o)
      [] loop = "sentiment._analyze_items" -> AnalyzeItems(attempt, o)
      [] loop = "sentiment._translate_items" -> TranslateItems(attempt, o)
      [] loop = "grouping._group_items" -> GroupItems(attempt, o)

RetryCallInit ==
    \E loop \in FetcherLoops \cup ClientLoops :
        retryCall = [step |-> "running", loop |-> loop, attempt |-> 0,
                     trail |-> <<>>, sleeps |-> <<>>]

\* one pass of `for attempt in range(self.max_retries)`; after the last pass
\* the statement behind the loop returns the empty result
RetryCallPass ==
    /\ retryCall.step = "running"
    /\ retryCall.attempt < MaxRetries
    /\ \E o \in Outcomes :
        LET p == Pass(retryCall.loop, retryCall.attempt, o)
        IN  retryCall' = [retryCall EXCEPT
                !.trail = Append(@, o),
                !.sleeps = @ \o p.sleep,
                !.attempt = @ + 1,
                !.step = IF p.exit # "next" THEN p.exit
                         ELSE IF retryCall.attempt + 1 = MaxRetries THEN "empty"
                         ELSE "running"]
    /\ UNCHANGED <<syncVars, serial, mergeCall, groupCall, analyzeCall>>

CallsInit ==
    /\ SyncInit
    /\ serial = NoCall
    /\ \/ MergeCallInit /\ groupCall = NoCall /\ analyzeCall = NoCall /\ retryCall = NoCall
       \/ GroupCallInit /\ mergeCall = NoCall /\ analyzeCall = NoCall /\ retryCall = NoCall
       \/ AnalyzeCallInit /\ mergeCall = NoCall /\ groupCall = NoCall /\ retryCall = NoCall
       \/ RetryCallInit /\ mergeCall = NoCall /\ groupCall = NoCall /\ analyzeCall = NoCall

CallsNext ==
    \/ MergeCallMerge
    \/ MergeCallSave
    \/ MergeCallAgain
    \/ GroupCallCreate
    \/ GroupCallDedup
    \/ AnalyzeCallRun
    \/ RetryCallPass

Calls == CallsInit /\ [][CallsNext]_vars


(* ------------------------ runs one after the other -------------------- *)
\* The specification Serial runs sync_all repeatedly with no overlap, on a
\* store that starts empty, with github and discourse enabled and twitter
\* disabled.  The tracker holds one issue, "a", last updated at
\* issue_updated; the forum holds one topic, "b".  A run fetches at one
\* instant and finishes at the same or a later one.  There is a run and one
\* subsequent run; serial.log keeps what each did.

\* last instant of the clock of these runs
MaxClock == 2

\* the model answers one object per item
WellFormed(batch) == [raised |-> FALSE, array |-> [i \in 1..Len(batch) |-> "obj"]]

\* what GET /repos/{owner}/{name}/issues answers at instant t for `since`
IssuesAt(updated, t, since) ==
    IF updated <= t /\ (since = NoTime \/ updated >= since) THEN <<"a">> ELSE <<>>

\* main.py 122-166: sync_all from merge_items to its return, or to the raise
\* of save_groups when fault = "save_groups"
RunTail(items, grps, all, aout, gout, fault) ==
    LET new == MergeItems(items, all)
        analyzed == AnalyzeBatch(new, aout)
        created == CreateGroups(analyzed, gout)
        unique == DeduplicateGroups(created, grps)
        saved == SaveItemsDocs(items, analyzed)
    IN  IF new = <<>>
           THEN [items |-> items, groups |-> grps, wrote_ts |-> FALSE,
                 analyzed |-> <<>>, grouping_failed |-> FALSE,
                 response |-> [synced |-> 0, groups |-> 0, message |-> "No new items"]]
        ELSE IF fault = "save_groups"
           THEN [items |-> saved, groups |-> grps, wrote_ts |-> FALSE,
                 analyzed |-> analyzed,
                 grouping_failed |-> analyzed # <<>> /\ gout.raised,
                 response |-> [status_code |-> 500]]
        ELSE [items |-> saved, groups |-> SaveGroupsDocs(grps, unique),
              wrote_ts |-> TRUE, analyzed |-> analyzed,
              grouping_failed |-> analyzed # <<>> /\ gout.raised,
              response |-> [synced |-> Len(analyzed), groups |-> Len(unique),
                            total_fetched |-> Len(all)]]

SerialInit ==
    \E u \in 0..MaxClock :
        serial = [step |-> "ready", clock |-> 0, issue_updated |-> u,
                  items |-> {}, groups |-> {}, lastSyncAt |-> NoTime,
                  last_sync |-> NoTime, fetch_at |-> NoTime, issues_ok |-> TRUE,
                  all_items |-> <<>>, log |-> <<>>]

SerialTick ==
    /\ serial.step # "idle"
    /\ serial.clock < MaxClock
    /\ serial' = [serial EXCEPT !.clock = @ + 1]
    /\ UNCHANGED <<syncVars, mergeCall, groupCall, analyzeCall, retryCall>>

\* main.py 72-120: get_last_sync_time and phase 1.  A failure of _fetch_issues
\* is swallowed by fetch_issues_and_discussions (github.py 37-41).
SerialBegin ==
    /\ serial.step = "ready"
    /\ Len(serial.log) <= 1
    /\ \E ok \in BOOLEAN :
        serial' = [serial EXCEPT
            !.step = "fetched",
            !.last_sync = serial.lastSyncAt,
            !.fetch_at = serial.clock,
            !.issues_ok = ok,
            !.all_items = (IF ok THEN IssuesAt(serial.issue_updated, serial.clock,
                                               serial.lastSyncAt)
                                 ELSE <<>>) \o <<"b">>]
    /\ UNCHANGED <<syncVars, mergeCall, groupCall, analyzeCall, retryCall>>

\* main.py 122-173: the rest of the run
SerialFinish ==
    /\ serial.step = "fetched"
    /\ \E aout \in AnalysisOutcomes(MergeItems(serial.items, serial.all_items)) :
       \E gout \in GroupingOutcomes :
       \E fault \in {"none", "save_groups"} :
        LET new == MergeItems(serial.items, serial.all_items)
            tail == RunTail(serial.items, serial.groups, serial.all_items,
                            aout, gout, fault)
            run == [since |-> serial.last_sync, fetch_at |-> serial.fetch_at,
                    issues_ok |-> serial.issues_ok, all_items |-> serial.all_items,
                    before |-> serial.items, groups_before |-> serial.groups,
                    new |-> new,
                    wellformed |-> new # <<>> /\ aout = WellFormed(new),
                    themes |-> IF new = <<>> \/ gout.raised THEN <<>> ELSE gout.themes,
                    tail |-> tail]
        IN  serial' = [serial EXCEPT
                !.step = "ready",
                !.items = tail.items,
                !.groups = tail.groups,
                !.lastSyncAt = IF tail.wrote_ts THEN serial.clock ELSE @,
                !.last_sync = NoTime,
                !.fetch_at = NoTime,
                !.issues_ok = TRUE,
                !.all_items = <<>>,
                !.log = Append(@, run)]
    /\ UNCHANGED <<syncVars, mergeCall, groupCall, analyzeCall, retryCall>>

SerialInitAll ==
    /\ SyncInit
    /\ mergeCall = NoCall
    /\ groupCall = NoCall
    /\ analyzeCall = NoCall
    /\ retryCall = NoCall
    /\ SerialInit

SerialNext ==
    \/ SerialTick
    \/ SerialBegin
    \/ SerialFinish

Serial == SerialInitAll /\ [][SerialNext]_vars

(* ------------------------------ claims -------------------------------- *)
Done(r) == pc[r] = "done"

\* between a successful acquire_lock and the release_lock of the same run
InPipeline(r) == hist[r].acquired /\ hist[r].releases = 0

Skipped == [status |-> "skipped", reason |-> "Another sync in progress"]
Unauthorized == [status_code |-> 401, detail |-> "Unauthorized"]
IsError(resp) == "status_code" \in DOMAIN resp
IsSkipped(resp) == "status" \in DOMAIN resp
IsSuccess(resp) == "synced" \in DOMAIN resp

\* C1: at any time at most one run is between a successful acquire_lock and
\* its release_lock; two sync executions never overlap.
C1_NoOverlap == Cardinality({r \in Runs : InPipeline(r)}) <= 1

\* C2: of two acquire_lock calls with no release_lock between them and less
\* than the TTL elapsed, at most one returns True: no call returns True (writes
\* its record) while the record of another successful call is still in the
\* store and unexpired.
C2_AtMostOneAcquire == \A r \in Runs : ~hist[r].overrode

\* C3: acquire_lock returns True only when it found no record or an expired
\* one, and then leaves a record with expires_at = acquired_at + 30 minutes;
\* when it returns False it has not written the record.
C3_AcquireContract ==
    /\ \A r \in Runs : hist[r].sawActive =>
            ~hist[r].acquired /\ "lock" \notin hist[r].writes
    /\ lock.exists => lock.expires_at = lock.acquired_at + LockTTL

\* C4: a run that acquired the lock has called release_lock exactly once when
\* its handler has returned, whether it completed, returned early or raised;
\* and never more than once.
C4_ReleaseExactlyOnce ==
    \A r \in Runs :
        /\ hist[r].releases <= 1
        /\ (Done(r) /\ hist[r].acquired) => hist[r].releases = 1

C4_Witness ==
    \E r, q \in Runs :
        /\ Done(r) /\ hist[r].acquired /\ hist[r].raised /\ hist[r].releases = 1
        /\ Done(q) /\ hist[q].acquired /\ "message" \in DOMAIN response[q]
        /\ hist[q].releases = 1

C6_SkippedDoesNothing ==
    \A r \in Runs :
        hist[r].sawActive =>
            /\ Done(r)
            /\ response[r] = Skipped
            /\ hist[r].writes = {}
            /\ ~hist[r].fetched
            /\ hist[r].releases = 0

C6_Witness ==
    \E r \in Runs :
        /\ hist[r].sawActive /\ Done(r) /\ response[r] = Skipped
        /\ lock.exists /\ lock.owner # r

\* C7: a request whose Authorization header is absent or does not start with
\* "Bearer " is answered 401 without acquire_lock being called, without any
\* store write and without any fetch.
C7_AuthRejectedBeforeLock ==
    \A r \in Runs :
        (pc[r] # "start" /\ (~header[r].present \/ ~StartsWith(header[r].value, Bearer)))
            => /\ Done(r)
               /\ response[r] = Unauthorized
               /\ hist[r].lockCalls = 0
               /\ ~hist[r].acquired
               /\ hist[r].writes = {}
               /\ ~hist[r].fetched

C7_Witness ==
    \E r, q \in Runs :
        /\ Done(r) /\ ~header[r].present /\ response[r] = Unauthorized
        /\ Done(q) /\ header[q].present /\ ~StartsWith(header[q].value, Bearer)
        /\ response[q] = Unauthorized

\* C8: in a run in which some phase raises, lastSyncAt has the same value
\* when the run ends (its handler returns) as when it started (its
\* acquire_lock returned True).
C8_WatermarkSameAfterFailure ==
    [][\A r \in Runs :
          (pc[r] = "finally" /\ pc'[r] = "done" /\ hist[r].raised)
              => lastSyncAt' = hist[r].wmAtAcquire]_vars

\* C9: after every run that ends with a success response, also one in which
\* no item is new, lastSyncAt has been set by that run.
C9_SuccessAdvancesWatermark ==
    \A r \in Runs :
        (Done(r) /\ IsSuccess(response[r])) =>
            "sync-state" \in hist[r].writes /\ lastSyncAt # NoTime

\* C10: every response that is neither skipped nor an error carries synced,
\* groups and total_fetched, and total_fetched is the number of items the
\* fetchers collected in that run.
C10_SuccessShape ==
    \A r \in Runs :
        (pc[r] = "finally" /\ ~IsError(response[r]) /\ ~IsSkipped(response[r])) =>
            /\ {"synced", "groups", "total_fetched"} \subseteq DOMAIN response[r]
            /\ response[r].total_fetched = Len(all_items[r])

\* C11: a run with twitter, github and discourse all enabled and their
\* credentials present, in which the forum fetches fail and the other two
\* sources answer, leaves phase 1 without an error, carrying the items of the
\* sources that answered, and goes on to a success response.
C11_ForumFailureNotFatal ==
    [][\A r \in Runs :
          (pc[r] = "fetch" /\ cfg[r] = Sources /\ pc'[r] # "fetch")
              => /\ pc'[r] = "merge"
                 /\ ~IsError(response'[r])]_vars

\* the positions of the candidates whose id is not stored before the call
NewPositions == {i \in DOMAIN mergeCall.candidates :
                    ItemId(mergeCall.candidates[i]) \notin mergeCall.before}

\* the k-th of these positions, in candidate order
NthNew(k) == CHOOSE i \in NewPositions :
                Cardinality({j \in NewPositions : j < i}) = k - 1

\* C12: merge_items returns exactly the candidates whose id is not in the
\* existing set, in candidate order, and none whose id is in it.
C12_MergeReturnsExactlyNew ==
    mergeCall.step \in {"merged", "saved", "remerged"} =>
        /\ Len(mergeCall.merged) = Cardinality(NewPositions)
        /\ \A k \in 1..Len(mergeCall.merged) :
               mergeCall.merged[k] = ItemId(mergeCall.candidates[NthNew(k)])
        /\ \A k \in 1..Len(mergeCall.merged) :
               mergeCall.merged[k] \notin mergeCall.before

C12_Witness ==
    /\ mergeCall.step = "merged"
    /\ Len(mergeCall.candidates) = 2
    /\ ItemId(mergeCall.candidates[1]) \in mergeCall.before
    /\ mergeCall.merged = <<ItemId(mergeCall.candidates[2])>>

\* C13: after save_items has stored the result of merge_items(C), merge_items(C)
\* returns the empty list.
C13_MergeAfterSaveEmpty ==
    mergeCall.step = "remerged" => mergeCall.again = <<>>

C13_Witness ==
    /\ mergeCall.step = "remerged"
    /\ mergeCall.before # {}
    /\ mergeCall.merged # <<>>
    /\ Len(mergeCall.merged) < Len(mergeCall.candidates)
    /\ mergeCall.again = <<>>

\* C14: two themes that are equal after lower-casing get the same group id
\* from _generate_group_id.
C14_GroupIdIgnoresCase ==
    groupCall.step = "created" =>
        \A i, j \in DOMAIN groupCall.new_groups :
            Lower(groupCall.new_groups[i].theme) = Lower(groupCall.new_groups[j].theme)
                => groupCall.new_groups[i].id = groupCall.new_groups[j].id

\* the lower-cased themes of the groups stored before the call
StoredThemes == {Lower(g.theme) : g \in groupCall.existing}

\* C15: deduplicate_groups drops a new group if and only if its theme equals,
\* case-insensitively, the theme of some stored group; the others are
\* returned in input order.
C15_DedupAgainstStoredOnly ==
    groupCall.step = "deduped" =>
        groupCall.unique = SelectSeq(groupCall.new_groups,
                                     LAMBDA g : Lower(g.theme) \notin StoredThemes)

\* the retryable conditions: 429, 5xx, transport error
Retryable == {"429", "5xx", "transport"}

C17_ClientErrorNotRetried ==
    (/\ retryCall.step # "idle"
     /\ retryCall.loop \in FetcherLoops
     /\ Len(retryCall.trail) >= 1
     /\ retryCall.trail[1] = "4xx") =>
        /\ retryCall.step # "running"
        /\ Len(retryCall.trail) = 1
        /\ retryCall.sleeps = <<>>

\* C18: two fetched items that come from different upstream objects have
\* different ids, so after save_items each new object has a document of its own.
C18_IdsCollisionFree ==
    /\ mergeCall.step = "merged" =>
           \A i, j \in DOMAIN mergeCall.candidates :
               mergeCall.candidates[i] # mergeCall.candidates[j] =>
                   ItemId(mergeCall.candidates[i]) # ItemId(mergeCall.candidates[j])
    /\ mergeCall.step = "saved" =>
           Cardinality(mergeCall.docs \ mergeCall.before)
               = Cardinality({mergeCall.candidates[i] : i \in NewPositions})

\* C19: when the array the model returned for a batch has another length than
\* the batch, nothing of it is applied: every item of the batch ends with the
\* fallback defaults.
C19_WrongLengthIsFailure ==
    (/\ analyzeCall.step = "returned"
     /\ ~analyzeCall.outcome.raised
     /\ Len(analyzeCall.outcome.array) # Len(analyzeCall.batch)) =>
        /\ Len(analyzeCall.fields) = Len(analyzeCall.batch)
        /\ \A i \in DOMAIN analyzeCall.fields :
               /\ analyzeCall.fields[i].id = analyzeCall.batch[i]
               /\ analyzeCall.fields[i].sentiment = "neutral"

\* C20: whatever the model does, analyze_batch returns each input item once,
\* in input order.
C20_AnalyzeKeepsEveryItem ==
    analyzeCall.step = "returned" => analyzeCall.analyzed = analyzeCall.batch

\* the analysis of the batch failed: _analyze_items raised, or an element of
\* its result raised while it was applied
AnalysisFailed ==
    \/ analyzeCall.outcome.raised
    \/ FirstBad(analyzeCall.outcome.array,
                Min(Len(analyzeCall.batch), Len(analyzeCall.outcome.array))) > 0

\* C21: when the analysis of a batch fails, every item of the batch ends with
\* sentiment neutral (category other, analyzed) and without a summary taken
\* from the model, and analyze_batch still returns.
C21_FailedBatchGetsDefaults ==
    (analyzeCall.step = "returned" /\ AnalysisFailed) =>
        \A i \in DOMAIN analyzeCall.fields :
            /\ analyzeCall.fields[i].sentiment = "neutral"
            /\ analyzeCall.fields[i].summary # "result"

\* the documents and collections a step of run r writes
NewWrites(r) == hist'[r].writes \ hist[r].writes

\* C25: a step of the fetch, filter, analysis, grouping, group-dedup or
\* translation phase, raising or not, writes no item, group or watermark; a
\* run that has raised writes none afterwards; items are written only by
\* save_items, before any group or watermark of the run, groups only by
\* save_groups, before the watermark, and the watermark only by
\* update_sync_timestamp.
C25_NoWriteBeforeSave ==
    [][\A r \in Runs :
          /\ (/\ pc'[r] # pc[r]
              /\ \/ pc[r] \in {"fetch", "merge", "analyze", "group", "dedup", "translate"}
                 \/ hist'[r].raised)
                => /\ feedback' = feedback
                   /\ groupDocs' = groupDocs
                   /\ lastSyncAt' = lastSyncAt
                   /\ NewWrites(r) \subseteq {"lock"}
          /\ "items" \in NewWrites(r) =>
                pc[r] = "save_items" /\ hist[r].writes \cap {"groups", "sync-state"} = {}
          /\ "groups" \in NewWrites(r) =>
                pc[r] = "save_groups" /\ "sync-state" \notin hist[r].writes
          /\ "sync-state" \in NewWrites(r) => pc[r] = "update_ts"]_vars

C25_Witness ==
    \E r, q \in Runs :
        /\ Done(r) /\ hist[r].fetched /\ hist[r].raised /\ hist[r].writes = {"lock"}
        /\ Done(q) /\ hist[q].writes = {"lock", "items", "groups", "sync-state"}

\* C26: release_lock removes the lock record only if the releasing run wrote
\* it: a run never deletes the record of another run.
C26_ReleaseOnlyOwnRecord ==
    [][\A r \in Runs :
          (pc[r] = "finally" /\ pc'[r] = "done" /\ lock.exists /\ lock.owner # r)
              => lock' = lock]_vars

\* C26 as amended: release_lock deletes whatever lock record is in the store,
\* whoever wrote it; after it no lock record exists.
C26_ReleaseDeletesAnyRecord ==
    [][\A r \in Runs : (pc[r] = "finally" /\ pc'[r] = "done") => ~lock'.exists]_vars

C26_Witness ==
    \E r, q \in Runs :
        /\ Done(r) /\ hist[r].releases = 1
        /\ InPipeline(q) /\ "lock" \in hist[q].writes
        /\ ~lock.exists

\* C29: the list merge_items returns holds no id twice, also when the
\* fetchers delivered an upstream object more than once.
C29_MergedIdsDistinct ==
    mergeCall.step = "merged" =>
        \A i, j \in DOMAIN mergeCall.merged :
            i # j => mergeCall.merged[i] # mergeCall.merged[j]

\* C30: the list deduplicate_groups returns holds no two groups whose themes
\* are equal case-insensitively, whatever the existing list, so its length is
\* the number of group documents save_groups writes.
C30_UniqueGroupsDistinct ==
    groupCall.step = "deduped" =>
        /\ \A i, j \in DOMAIN groupCall.unique :
               i # j => Lower(groupCall.unique[i].theme) # Lower(groupCall.unique[j].theme)
        /\ Len(groupCall.unique)
               = Cardinality({groupCall.unique[i].id : i \in DOMAIN groupCall.unique})

\* the grouping answer of a logged run, as create_groups received it
GroupingOf(run) == [raised |-> run.tail.grouping_failed, themes |-> run.themes]

\* C22: when the grouping call fails after its retries, create_groups returns
\* no group, and a run in which nothing else fails saves every analyzed item,
\* advances the watermark and returns a success response with groups = 0
C22_GroupingFailureContinues ==
    \A i \in DOMAIN serial.log :
        LET run == serial.log[i]
        IN  (run.tail.grouping_failed /\ ~IsError(run.tail.response))
                => /\ CreateGroups(run.tail.analyzed, GroupingOf(run)) = <<>>
                   /\ IsSuccess(run.tail.response)
                   /\ run.tail.response.groups = 0
                   /\ run.tail.response.synced = Len(run.tail.analyzed)
                   /\ run.tail.wrote_ts
                   /\ run.tail.groups = run.groups_before
                   /\ (SeqRange(run.tail.analyzed) \ {""}) \subseteq run.tail.items

C22_Witness ==
    /\ serial.step = "ready"
    /\ \E i \in DOMAIN serial.log :
        /\ serial.log[i].tail.grouping_failed
        /\ ~IsError(serial.log[i].tail.response)
        /\ serial.log[i].tail.analyzed # <<>>
        /\ serial.lastSyncAt # NoTime

\* C23: a run that raised in save_groups after save_items committed, followed
\* by a fault-free run over the same fetched items and the same model
\* answers, leaves the items and groups of one single fault-free run
C23_RestartEquivalence ==
    (/\ serial.step = "ready"
     /\ Len(serial.log) = 2
     /\ IsError(serial.log[1].tail.response)
     /\ serial.log[1].wellformed
     /\ serial.log[1].tail.items # serial.log[1].before
     /\ ~IsError(serial.log[2].tail.response)
     /\ serial.log[2].all_items = serial.log[1].all_items)
        => LET first == serial.log[1]
               single == RunTail(first.before, first.groups_before, first.all_items,
                                 WellFormed(first.new), GroupingOf(first), "none")
           IN  /\ serial.log[2].tail.items = single.items
               /\ serial.log[2].tail.groups = single.groups

\* C24: in runs that do not overlap, an item already stored when merge_items
\* executes is not analyzed or saved again, and a second run over source data
\* that did not change returns synced = 0 and writes no item and no group
C24_StoredItemsUntouched ==
    /\ \A i \in DOMAIN serial.log :
           SeqRange(serial.log[i].tail.analyzed) \cap serial.log[i].before = {}
    /\ (/\ Len(serial.log) = 2
        /\ IsSuccess(serial.log[1].tail.response)
        /\ serial.log[1].issues_ok
        /\ serial.log[2].issues_ok
        /\ serial.issue_updated <= serial.log[1].fetch_at
        /\ ~IsError(serial.log[2].tail.response))
           => /\ serial.log[2].tail.response.synced = 0
              /\ serial.log[2].tail.items = serial.log[1].tail.items
              /\ serial.log[2].tail.groups = serial.log[1].tail.groups

\* C27: a run writes lastSyncAt only when its issue fetch succeeded
C27_WatermarkNeedsIssueFetch ==
    \A i \in DOMAIN serial.log :
        serial.log[i].tail.wrote_ts => serial.log[i].issues_ok

\* C28: the `since` of a run's issue fetch is never later than the instant at
\* which the previous successful run fetched the issues, so an issue updated
\* while that run was in progress is returned to the next run
C28_WindowSkipsNothing ==
    \A i \in DOMAIN serial.log :
        (i > 1 /\ serial.log[i - 1].tail.wrote_ts /\ serial.log[i - 1].issues_ok)
            => /\ serial.log[i].since <= serial.log[i - 1].fetch_at
               /\ (/\ serial.log[i].issues_ok
                   /\ serial.issue_updated > serial.log[i - 1].fetch_at
                   /\ serial.issue_updated <= serial.log[i].fetch_at)
                      => "a" \in SeqRange(serial.log[i].all_items)

====
